---- MODULE Spec2Model ----
(***************************************************************************)
(* A model of featureTracker.py: the command-line report run that          *)
(* validates a date range against a granularity, queries the metrics       *)
(* backend and prints six report sections.                                 *)
(*                                                                         *)
(* Dates are records [year, month, day]; datetime's date arithmetic is     *)
(* modelled through the proleptic Gregorian ordinal, as the standard       *)
(* library computes it.                                                    *)
(***************************************************************************)
EXTENDS Integers, Sequences, FiniteSets, TLC

VARIABLES
    pc,                   \* position of the script: the next block to run, or how it exited
    interval,             \* args.interval
    well_formed,          \* whether both date strings parse as %Y-%m-%d
    start_date,           \* start_date (line 79)
    end_date,             \* end_date (line 80)
    goals,                \* the normalised goal list (line 75)
    traffic,              \* the largest count the metrics backend reports in this run
    current,              \* the loop cursor `current` (lines 56, 156, 248)
    response,             \* the value get_json returned last (line 38)
    queries,              \* number of requests sent by get_json
    stdout,               \* the report sections printed so far, in order
    total_goal_visitors,  \* line 100, capped at line 115
    goal_visitor_map,     \* line 101: insertion-ordered goal -> count
    site_total_visitors,  \* line 113
    total_events,         \* line 134
    intervals,            \* line 155 and line 247
    idx,                  \* position of the running for-loop (lines 173, 224, 266)
    section_lines,        \* the sectionN_lines list of the section being built
    home_visitors,        \* lines 220, 274
    conversion_visitors,  \* lines 223, 279
    conversion_rate       \* line 232 (conversion_rate) and line 286 (rate)

vars == <<pc, interval, well_formed, start_date, end_date, goals, traffic,
          current, response, queries, stdout, total_goal_visitors,
          goal_visitor_map, site_total_visitors, total_events, intervals, idx,
          section_lines, home_visitors, conversion_visitors, conversion_rate>>

(***************************************************************************)
(* Bounds of the model.                                                    *)
(***************************************************************************)
\* first calendar year from which start dates are drawn
FirstYear == 2024
\* number of calendar years start dates are drawn from
NumYears == 1
\* a range spans at most this many intervals of its granularity (plus slack)
MaxIntervals == 2
\* the largest per-goal count the backend reports in a data-carrying run
MaxCount == 1

Min(a, b) == IF a <= b THEN a ELSE b

(***************************************************************************)
(* datetime.date                                                           *)
(***************************************************************************)
MkDate(y, m, d) == [year |-> y, month |-> m, day |-> d]

\* what an uncaught ValueError leaves in place of a date
ValueError == MkDate(0, 0, 0)

IsLeap(y) == (y % 4 = 0) /\ ((y % 100 /= 0) \/ (y % 400 = 0))

DaysInMonth(y, m) ==
    IF m = 2 THEN (IF IsLeap(y) THEN 29 ELSE 28)
    ELSE IF m \in {4, 6, 9, 11} THEN 30 ELSE 31

\* date(y, m, d) raises ValueError unless this holds
DateCtorOk(y, m, d) == m \in 1..12 /\ d \in 1..DaysInMonth(y, m)

DaysBeforeYear(y) ==
    LET p == y - 1 IN p * 365 + (p \div 4) - (p \div 100) + (p \div 400)

RECURSIVE DaysBeforeMonth(_, _)
DaysBeforeMonth(y, m) ==
    IF m = 1 THEN 0 ELSE DaysBeforeMonth(y, m - 1) + DaysInMonth(y, m - 1)

\* date.toordinal(): 0001-01-01 is day 1
ToOrdinal(d) == DaysBeforeYear(d.year) + DaysBeforeMonth(d.year, d.month) + d.day

YearsInReach == (FirstYear - 1)..(FirstYear + NumYears + 2)

\* date.fromordinal()
FromOrdinal(n) ==
    LET y == CHOOSE yy \in YearsInReach :
                 DaysBeforeYear(yy) < n /\ n <= DaysBeforeYear(yy + 1)
        r == n - DaysBeforeYear(y)
        m == CHOOSE mm \in 1..12 :
                 DaysBeforeMonth(y, mm) < r
                    /\ r <= DaysBeforeMonth(y, mm) + DaysInMonth(y, mm)
    IN MkDate(y, m, r - DaysBeforeMonth(y, m))

\* d + timedelta(days=n)
AddDays(d, n) == FromOrdinal(ToOrdinal(d) + n)

\* date.weekday(): Monday is 0, Sunday is 6
Weekday(d) == (ToOrdinal(d) + 6) % 7

DateLT(a, b) == ToOrdinal(a) < ToOrdinal(b)
DateLE(a, b) == ToOrdinal(a) <= ToOrdinal(b)

(***************************************************************************)
(* add_one_month                                                           *)
(***************************************************************************)
add_one_month(d) ==
    LET year  == IF d.month = 12 THEN d.year + 1 ELSE d.year
        month == IF d.month = 12 THEN 1 ELSE d.month + 1
    IN IF ~DateCtorOk(year, month + 1, 1)
       THEN ValueError
       ELSE LET last == AddDays(MkDate(year, month + 1, 1), -1)
                day  == Min(d.day, last.day)
            IN IF DateCtorOk(year, month, day) THEN MkDate(year, month, day)
               ELSE ValueError

(***************************************************************************)
(* validate_interval_alignment                                             *)
(***************************************************************************)
\* line 52 with Sunday numbered 0 and Saturday 6
WeekAligned_SundayZero(s, e) == ~(Weekday(s) /= 0 \/ Weekday(e) /= 6)

\* line 52: the 'week' test that lets the run continue
WeekAligned(s, e) == ~(Weekday(s) /= 6 \/ Weekday(e) /= 5)

\* line 59: the 'month' test that lets the run continue
MonthAligned(cur, e) == ~(cur /= AddDays(e, 1))

(***************************************************************************)
(* The metrics backend, as get_json sees it                                *)
(***************************************************************************)
\* the goals the backend has rows for, in the order it lists them
BackendGoals == <<"signup", "login", "other">>

\* a parsed JSON body: a breakdown carries a results list, an aggregate a value
Breakdown(rows) == [results |-> rows, value |-> 0]
Aggregate(v) == [results |-> <<>>, value |-> v]
NoResponse == Breakdown(<<>>)

\* the row lists a breakdown by goal can return: a row for any of the backend's
\* goals, with the requested metrics (a metric that was not requested is absent,
\* which item.get(..., 0) reads as 0); a backend that recorded nothing has no rows.
\* The last backend goal is one no run requests: its row, when present, carries
\* the largest counts.
BreakdownResults(vs, es) ==
    LET Top(S) == CHOOSE x \in S : \A y \in S : y <= x
        Rows(g, V, E) == {<<>>} \cup
                   (IF vs \cup es = {0} THEN {}
                    ELSE {<<[goal |-> g, visitors |-> v, events |-> e]>> :
                             v \in V, e \in E})
    IN {a \o b \o c : a \in Rows(BackendGoals[1], vs, es),
                      b \in Rows(BackendGoals[2], vs, es),
                      c \in Rows(BackendGoals[3], {Top(vs)}, {Top(es)})}

Range(q) == {q[i] : i \in 1..Len(q)}

(***************************************************************************)
(* The aggregation loops                                                   *)
(***************************************************************************)
\* lines 103-108, 182-185, 280-283: visitors summed over the rows of requested goals
RECURSIVE SumVisitors(_, _)
SumVisitors(rows, gs) ==
    IF rows = <<>> THEN 0
    ELSE (IF Head(rows).goal \in Range(gs) THEN Head(rows).visitors ELSE 0)
         + SumVisitors(Tail(rows), gs)

\* lines 135-138, 182-186: events summed over the rows of requested goals
RECURSIVE SumEvents(_, _)
SumEvents(rows, gs) ==
    IF rows = <<>> THEN 0
    ELSE (IF Head(rows).goal \in Range(gs) THEN Head(rows).events ELSE 0)
         + SumEvents(Tail(rows), gs)

\* goal_visitor_map[goal] = count on an insertion-ordered dict
DictSet(m, g, c) ==
    IF \E i \in 1..Len(m) : m[i].goal = g
    THEN [i \in 1..Len(m) |-> IF m[i].goal = g THEN [goal |-> g, count |-> c] ELSE m[i]]
    ELSE Append(m, [goal |-> g, count |-> c])

\* lines 101-107 without the test of line 105: every row enters the map
RECURSIVE GoalVisitorMap_Unfiltered(_, _, _)
GoalVisitorMap_Unfiltered(rows, gs, m) ==
    IF rows = <<>> THEN m
    ELSE GoalVisitorMap_Unfiltered(Tail(rows), gs,
            DictSet(m, Head(rows).goal, Head(rows).visitors))

\* lines 101-107
RECURSIVE GoalVisitorMap(_, _, _)
GoalVisitorMap(rows, gs, m) ==
    IF rows = <<>> THEN m
    ELSE GoalVisitorMap(Tail(rows), gs,
            IF Head(rows).goal \in Range(gs)
            THEN DictSet(m, Head(rows).goal, Head(rows).visitors) ELSE m)

\* line 115 without the cap: the raw sum is reported
CapTotal_Uncapped(total, site) == total

\* line 115
CapTotal(total, site) == Min(total, site)

\* line 188 capping by the site-wide visitors instead of the reconciled total
CapInterval_BySite(visitors, total) == Min(visitors, site_total_visitors)

\* line 188
CapInterval(visitors, total) == Min(visitors, total)

\* lines 231, 285 without the cap
CapConversion_Uncapped(conv, home) == conv

\* lines 231, 285
CapConversion(conv, home) == Min(conv, home)

\* lines 205, 232, 286: a / b * 100 as the fraction <<numerator, denominator>>
Rate(a, b) == IF b > 0 THEN <<a * 100, b>> ELSE <<0, 1>>

\* line 202: sorted(..., key=count, reverse=True), which is stable
RECURSIVE InsertSorted(_, _)
InsertSorted(sorted, x) ==
    IF sorted = <<>> THEN <<x>>
    ELSE IF Head(sorted).count >= x.count
         THEN <<Head(sorted)>> \o InsertSorted(Tail(sorted), x)
         ELSE <<x>> \o sorted

RECURSIVE SortedGoals(_)
SortedGoals(m) ==
    IF m = <<>> THEN <<>>
    ELSE InsertSorted(SortedGoals(SubSeq(m, 1, Len(m) - 1)), m[Len(m)])

\* lines 204-206
Section4Lines(m, total) ==
    LET sg == SortedGoals(m)
    IN [i \in 1..Len(sg) |->
          [percentage |-> Rate(sg[i].count, total), count |-> sg[i].count,
           goal |-> sg[i].goal]]

(***************************************************************************)
(* Interval construction                                                   *)
(***************************************************************************)
\* lines 156-171: the three while loops of Section 3
RECURSIVE Intervals3(_, _, _, _)
Intervals3(iv, cur, e, acc) ==
    IF ~DateLE(cur, e) THEN [list |-> acc, current |-> cur]
    ELSE IF iv = "day"
    THEN Intervals3(iv, AddDays(cur, 1), e, Append(acc, [start |-> cur, end |-> cur]))
    ELSE IF iv = "week"
    THEN Intervals3(iv, AddDays(cur, 7), e,
                    Append(acc, [start |-> cur, end |-> AddDays(cur, 6)]))
    ELSE LET next_month == add_one_month(cur)
         IN IF next_month = ValueError THEN [list |-> acc, current |-> ValueError]
            ELSE Intervals3(iv, next_month, e,
                            Append(acc, [start |-> cur, end |-> AddDays(next_month, -1)]))

\* lines 248-263 with a week's end taken seven days after its start
RECURSIVE Intervals6_WeekOverlap(_, _, _, _)
Intervals6_WeekOverlap(iv, cur, e, acc) ==
    IF ~DateLE(cur, e) THEN [list |-> acc, current |-> cur]
    ELSE IF iv = "day"
    THEN Intervals6_WeekOverlap(iv, AddDays(cur, 1), e,
                                Append(acc, [start |-> cur, end |-> cur]))
    ELSE IF iv = "week"
    THEN Intervals6_WeekOverlap(iv, AddDays(cur, 7), e,
                                Append(acc, [start |-> cur, end |-> AddDays(cur, 7)]))
    ELSE LET next_month == add_one_month(cur)
         IN IF next_month = ValueError THEN [list |-> acc, current |-> ValueError]
            ELSE Intervals6_WeekOverlap(iv, next_month, e,
                            Append(acc, [start |-> cur, end |-> AddDays(next_month, -1)]))

\* lines 248-263: the three while loops of Section 6
RECURSIVE Intervals6(_, _, _, _)
Intervals6(iv, cur, e, acc) ==
    IF ~DateLE(cur, e) THEN [list |-> acc, current |-> cur]
    ELSE IF iv = "day"
    THEN Intervals6(iv, AddDays(cur, 1), e, Append(acc, [start |-> cur, end |-> cur]))
    ELSE IF iv = "week"
    THEN Intervals6(iv, AddDays(cur, 7), e,
                    Append(acc, [start |-> cur, end |-> AddDays(cur, 6)]))
    ELSE LET next_month == add_one_month(cur)
         IN IF next_month = ValueError THEN [list |-> acc, current |-> ValueError]
            ELSE Intervals6(iv, next_month, e,
                            Append(acc, [start |-> cur, end |-> AddDays(next_month, -1)]))

(***************************************************************************)
(* The inputs of a run                                                     *)
(***************************************************************************)
Granularities == {"day", "week", "month"}

UnitDays(iv) == IF iv = "day" THEN 1 ELSE IF iv = "week" THEN 7 ELSE 31

\* every calendar date of the years start dates are drawn from
CalendarDates ==
    {dt \in [year : FirstYear..(FirstYear + NumYears - 1), month : 1..12, day : 1..31] :
        DateCtorOk(dt.year, dt.month, dt.day)}

\* end dates from the day before start up to n intervals' worth of days from it
EndDates(iv, s, n) == {AddDays(s, k) : k \in (0 - 1)..(n * UnitDays(iv) - 1)}

\* the start date of the data-carrying runs: a Sunday that begins a month
ReportStarts == {MkDate(2024, 9, 1)}

GoalLists == {<<"signup", "login">>}

NoDate == MkDate(1, 1, 1)

Locals ==
    /\ pc = "parse"
    /\ current = NoDate
    /\ response = NoResponse
    /\ queries = 0
    /\ stdout = <<>>
    /\ total_goal_visitors = 0
    /\ goal_visitor_map = <<>>
    /\ site_total_visitors = 0
    /\ total_events = 0
    /\ intervals = <<>>
    /\ idx = 0
    /\ section_lines = <<>>
    /\ home_visitors = 0
    /\ conversion_visitors = 0
    /\ conversion_rate = <<0, 1>>

Inputs(starts, n) ==
    /\ interval \in Granularities
    /\ goals \in GoalLists
    /\ well_formed \in BOOLEAN
    /\ IF well_formed
       THEN /\ start_date \in starts
            /\ end_date \in EndDates(interval, start_date, n)
       ELSE /\ start_date = NoDate
            /\ end_date = NoDate

\* runs against a backend that has data, over a few ranges
Init == Locals /\ traffic = MaxCount /\ Inputs(ReportStarts, MaxIntervals)

\* runs against a backend without recorded traffic, over every range of the calendar
InitCal == Locals /\ traffic = 0 /\ Inputs(CalendarDates, MaxIntervals + 1)

(***************************************************************************)
(* MAIN: input validation, lines 78-89                                     *)
(***************************************************************************)
frame_data == <<response, queries, stdout, total_goal_visitors, goal_visitor_map,
                site_total_visitors, total_events, intervals, idx, section_lines,
                home_visitors, conversion_visitors, conversion_rate>>
frame_input == <<interval, well_formed, start_date, end_date, goals, traffic>>

\* lines 78-83
ParseDates ==
    /\ pc = "parse"
    /\ pc' = IF well_formed THEN "check_order" ELSE "exit_dates"
    /\ UNCHANGED <<frame_input, frame_data, current>>

\* lines 85-87
CheckOrder ==
    /\ pc = "check_order"
    /\ pc' = IF DateLT(end_date, start_date) THEN "exit_order" ELSE "validate"
    /\ UNCHANGED <<frame_input, frame_data, current>>

\* line 89 moved below line 97: the first request is sent before the check
Validate_AfterFetch ==
    /\ pc = "validate"
    /\ queries' = queries + 1
    /\ IF interval = "week"
       THEN /\ pc' = IF WeekAligned(start_date, end_date)
                     THEN "s1_breakdown" ELSE "exit_alignment"
            /\ UNCHANGED current
       ELSE IF interval = "month"
       THEN /\ pc' = "validate_month"
            /\ current' = start_date
       ELSE /\ pc' = "s1_breakdown"
            /\ UNCHANGED current
    /\ UNCHANGED <<frame_input, response, stdout, total_goal_visitors, goal_visitor_map,
                   site_total_visitors, total_events, intervals, idx, section_lines,
                   home_visitors, conversion_visitors, conversion_rate>>

\* line 89 into lines 50-56
Validate ==
    /\ pc = "validate"
    /\ IF interval = "week"
       THEN /\ pc' = IF WeekAligned(start_date, end_date)
                     THEN "s1_breakdown" ELSE "exit_alignment"
            /\ UNCHANGED current
       ELSE IF interval = "month"
       THEN /\ pc' = "validate_month"
            /\ current' = start_date
       ELSE /\ pc' = "s1_breakdown"
            /\ UNCHANGED current
    /\ UNCHANGED <<frame_input, frame_data>>

\* lines 57-58: one turn of the while loop
ValidateMonthStep ==
    /\ pc = "validate_month"
    /\ DateLT(current, end_date)
    /\ current' = add_one_month(current)
    /\ pc' = IF current' = ValueError THEN "exit_traceback" ELSE "validate_month"
    /\ UNCHANGED <<frame_input, frame_data>>

\* lines 59-61
ValidateMonthCheck ==
    /\ pc = "validate_month"
    /\ ~DateLT(current, end_date)
    /\ pc' = IF MonthAligned(current, end_date) THEN "s1_breakdown" ELSE "exit_alignment"
    /\ UNCHANGED <<frame_input, frame_data, current>>

(***************************************************************************)
(* get_json, lines 32-38                                                   *)
(***************************************************************************)
\* the blocks that start by sending a request
AtQuery ==
    \/ pc \in {"s1_breakdown", "s1_aggregate", "s2", "s5_home", "s6_goals"}
    \/ pc \in {"s3_loop", "s6_home"} /\ idx <= Len(intervals)
    \/ pc = "s5_goals" /\ idx <= Len(goals)

\* lines 35-37: a response whose status is not 200 ends the run; what the
\* interrupted section had built so far is never read again
GetJsonFails ==
    /\ AtQuery
    /\ queries' = queries + 1
    /\ pc' = "exit_query"
    /\ UNCHANGED <<frame_input, current, response, stdout, total_goal_visitors,
                   goal_visitor_map, site_total_visitors, total_events, intervals,
                   idx, section_lines, home_visitors, conversion_visitors,
                   conversion_rate>>

(***************************************************************************)
(* SECTION 1, lines 92-124                                                 *)
(***************************************************************************)
\* lines 93-108: the breakdown query and the sum over the requested goals
S1Breakdown ==
    /\ pc = "s1_breakdown"
    /\ \E rows \in BreakdownResults(0..traffic, {0}) :
          /\ response' = Breakdown(rows)
          /\ goal_visitor_map' = GoalVisitorMap(rows, goals, <<>>)
          /\ total_goal_visitors' = SumVisitors(rows, goals)
    /\ queries' = queries + 1
    /\ section_lines' = <<>>
    /\ pc' = "s1_aggregate"
    /\ UNCHANGED <<frame_input, current, stdout, site_total_visitors, total_events,
                   intervals, idx, home_visitors, conversion_visitors, conversion_rate>>

\* lines 110-124: the site-wide query, the cap, and the section's output
S1Aggregate ==
    /\ pc = "s1_aggregate"
    /\ \E v \in 0..(2 * traffic) :
          /\ response' = Aggregate(v)
          /\ site_total_visitors' = v
    /\ queries' = queries + 1
    /\ total_goal_visitors' = CapTotal(total_goal_visitors, site_total_visitors')
    /\ section_lines' = <<total_goal_visitors'>>
    /\ stdout' = Append(stdout, 1)
    /\ pc' = "s2"
    /\ UNCHANGED <<frame_input, current, goal_visitor_map, total_events, intervals,
                   idx, home_visitors, conversion_visitors, conversion_rate>>

(***************************************************************************)
(* SECTION 2, lines 127-147                                                *)
(***************************************************************************)
Section2 ==
    /\ pc = "s2"
    /\ \E rows \in BreakdownResults({0}, 0..traffic) :
          /\ response' = Breakdown(rows)
          /\ total_events' = SumEvents(rows, goals)
    /\ queries' = queries + 1
    /\ section_lines' = <<total_events', total_goal_visitors>>
    /\ stdout' = Append(stdout, 2)
    /\ pc' = "s3_build"
    /\ UNCHANGED <<frame_input, current, total_goal_visitors, goal_visitor_map,
                   site_total_visitors, intervals, idx, home_visitors,
                   conversion_visitors, conversion_rate>>

(***************************************************************************)
(* SECTION 3, lines 149-195                                                *)
(***************************************************************************)
\* lines 150-171
S3Build ==
    /\ pc = "s3_build"
    /\ LET built == Intervals3(interval, start_date, end_date, <<>>)
       IN /\ intervals' = built.list
          /\ current' = built.current
          /\ pc' = IF built.current = ValueError THEN "exit_traceback" ELSE "s3_loop"
    /\ section_lines' = <<>>
    /\ idx' = 1
    /\ UNCHANGED <<frame_input, response, queries, stdout, total_goal_visitors,
                   goal_visitor_map, site_total_visitors, total_events, home_visitors,
                   conversion_visitors, conversion_rate>>

\* lines 173-189 printing the section as soon as its first line is built
S3Interval_Streams ==
    /\ pc = "s3_loop"
    /\ idx <= Len(intervals)
    /\ \E rows \in BreakdownResults(0..traffic, 0..traffic) :
          /\ response' = Breakdown(rows)
          /\ section_lines' = Append(section_lines,
                [events |-> SumEvents(rows, goals),
                 visitors |-> Min(SumVisitors(rows, goals), total_goal_visitors)])
    /\ queries' = queries + 1
    /\ idx' = idx + 1
    /\ stdout' = IF idx = 1 THEN Append(stdout, 3) ELSE stdout
    /\ UNCHANGED <<frame_input, pc, current, total_goal_visitors,
                   goal_visitor_map, site_total_visitors, total_events, intervals,
                   home_visitors, conversion_visitors, conversion_rate>>

\* lines 173-189: one interval
S3Interval ==
    /\ pc = "s3_loop"
    /\ idx <= Len(intervals)
    /\ \E rows \in BreakdownResults(0..traffic, 0..traffic) :
          /\ response' = Breakdown(rows)
          /\ section_lines' = Append(section_lines,
                [events |-> SumEvents(rows, goals),
                 visitors |-> CapInterval(SumVisitors(rows, goals), total_goal_visitors)])
    /\ queries' = queries + 1
    /\ idx' = idx + 1
    /\ UNCHANGED <<frame_input, pc, current, stdout, total_goal_visitors,
                   goal_visitor_map, site_total_visitors, total_events, intervals,
                   home_visitors, conversion_visitors, conversion_rate>>

\* lines 191-195
S3Print ==
    /\ pc = "s3_loop"
    /\ idx > Len(intervals)
    /\ stdout' = Append(stdout, 3)
    /\ pc' = "s4"
    /\ UNCHANGED <<frame_input, current, response, queries, total_goal_visitors,
                   goal_visitor_map, site_total_visitors, total_events, intervals,
                   idx, section_lines, home_visitors, conversion_visitors,
                   conversion_rate>>

(***************************************************************************)
(* SECTION 4, lines 198-211                                                *)
(***************************************************************************)
Section4 ==
    /\ pc = "s4"
    /\ section_lines' = Section4Lines(goal_visitor_map, total_goal_visitors)
    /\ stdout' = Append(stdout, 4)
    /\ pc' = "s5_home"
    /\ UNCHANGED <<frame_input, current, response, queries, total_goal_visitors,
                   goal_visitor_map, site_total_visitors, total_events, intervals,
                   idx, home_visitors, conversion_visitors, conversion_rate>>

(***************************************************************************)
(* SECTION 5, lines 214-241                                                *)
(***************************************************************************)
\* lines 215-223
S5Home ==
    /\ pc = "s5_home"
    /\ \E v \in 0..(2 * traffic) :
          /\ response' = Aggregate(v)
          /\ home_visitors' = v
    /\ queries' = queries + 1
    /\ section_lines' = <<>>
    /\ conversion_visitors' = 0
    /\ idx' = 1
    /\ pc' = "s5_goals"
    /\ UNCHANGED <<frame_input, current, stdout, total_goal_visitors, goal_visitor_map,
                   site_total_visitors, total_events, intervals, conversion_rate>>

\* lines 224-229: one goal
S5Goal ==
    /\ pc = "s5_goals"
    /\ idx <= Len(goals)
    /\ \E v \in 0..traffic :
          /\ response' = Aggregate(v)
          /\ conversion_visitors' = conversion_visitors + v
    /\ queries' = queries + 1
    /\ idx' = idx + 1
    /\ UNCHANGED <<frame_input, pc, current, stdout, total_goal_visitors,
                   goal_visitor_map, site_total_visitors, total_events, intervals,
                   section_lines, home_visitors, conversion_rate>>

\* lines 231-241
S5Print ==
    /\ pc = "s5_goals"
    /\ idx > Len(goals)
    /\ conversion_visitors' = CapConversion(conversion_visitors, home_visitors)
    /\ conversion_rate' = Rate(conversion_visitors', home_visitors)
    /\ section_lines' = <<conversion_rate'>>
    /\ stdout' = Append(stdout, 5)
    /\ pc' = "s6_build"
    /\ UNCHANGED <<frame_input, current, response, queries, total_goal_visitors,
                   goal_visitor_map, site_total_visitors, total_events, intervals,
                   idx, home_visitors>>

(***************************************************************************)
(* SECTION 6, lines 243-294                                                *)
(***************************************************************************)
\* lines 244-263
S6Build ==
    /\ pc = "s6_build"
    /\ LET built == Intervals6(interval, start_date, end_date, <<>>)
       IN /\ intervals' = built.list
          /\ current' = built.current
          /\ pc' = IF built.current = ValueError THEN "exit_traceback" ELSE "s6_home"
    /\ section_lines' = <<>>
    /\ idx' = 1
    /\ UNCHANGED <<frame_input, response, queries, stdout, total_goal_visitors,
                   goal_visitor_map, site_total_visitors, total_events, home_visitors,
                   conversion_visitors, conversion_rate>>

\* lines 266-274: one interval's page-wide visitors
S6Home ==
    /\ pc = "s6_home"
    /\ idx <= Len(intervals)
    /\ \E v \in 0..(2 * traffic) :
          /\ response' = Aggregate(v)
          /\ home_visitors' = v
    /\ queries' = queries + 1
    /\ pc' = "s6_goals"
    /\ UNCHANGED <<frame_input, current, stdout, total_goal_visitors, goal_visitor_map,
                   site_total_visitors, total_events, intervals, idx, section_lines,
                   conversion_visitors, conversion_rate>>

\* lines 276-287: the same interval's goal conversions and rate
S6Goals ==
    /\ pc = "s6_goals"
    /\ \E rows \in BreakdownResults(0..traffic, {0}) :
          /\ response' = Breakdown(rows)
          /\ conversion_visitors' = CapConversion(SumVisitors(rows, goals), home_visitors)
    /\ queries' = queries + 1
    /\ conversion_rate' = Rate(conversion_visitors', home_visitors)
    /\ section_lines' = Append(section_lines, conversion_rate')
    /\ idx' = idx + 1
    /\ pc' = "s6_home"
    /\ UNCHANGED <<frame_input, current, stdout, total_goal_visitors, goal_visitor_map,
                   site_total_visitors, total_events, intervals, home_visitors>>

\* lines 289-294
S6Print ==
    /\ pc = "s6_home"
    /\ idx > Len(intervals)
    /\ stdout' = Append(stdout, 6)
    /\ pc' = "done"
    /\ UNCHANGED <<frame_input, current, response, queries, total_goal_visitors,
                   goal_visitor_map, site_total_visitors, total_events, intervals,
                   idx, section_lines, home_visitors, conversion_visitors,
                   conversion_rate>>

Next ==
    \/ ParseDates
    \/ CheckOrder
    \/ Validate
    \/ ValidateMonthStep
    \/ ValidateMonthCheck
    \/ GetJsonFails
    \/ S1Breakdown
    \/ S1Aggregate
    \/ Section2
    \/ S3Build
    \/ S3Interval
    \/ S3Print
    \/ Section4
    \/ S5Home
    \/ S5Goal
    \/ S5Print
    \/ S6Build
    \/ S6Home
    \/ S6Goals
    \/ S6Print

Spec == Init /\ [][Next]_vars

SpecCal == InitCal /\ [][Next]_vars

(***************************************************************************)
(* What the claims speak of, stated apart from the operators above         *)
(***************************************************************************)
\* the sum of a metric over the rows whose goal is in the requested list
RECURSIVE RequestedTotal(_, _, _)
RequestedTotal(rows, gs, metric) ==
    IF Len(rows) = 0 THEN 0
    ELSE LET n == Len(rows)
             wanted == \E j \in 1..Len(gs) : gs[j] = rows[n].goal
         IN RequestedTotal(SubSeq(rows, 1, n - 1), gs, metric)
            + (IF wanted THEN rows[n][metric] ELSE 0)

Smaller(a, b) == IF a < b THEN a ELSE b

\* 2000-01-02 was a Sunday
KnownSunday == MkDate(2000, 1, 2)
IsSunday(d) == (ToOrdinal(d) - ToOrdinal(KnownSunday)) % 7 = 0
IsSaturday(d) == (ToOrdinal(d) - ToOrdinal(KnownSunday)) % 7 = 6

\* the same day of the following month, clamped to that month's length
FollowingMonth(d) ==
    LET y == IF d.month = 12 THEN d.year + 1 ELSE d.year
        m == (d.month % 12) + 1
    IN MkDate(y, m, Smaller(d.day, DaysInMonth(y, m)))

\* [s, e] runs from the first day of a month to the last day of a month
WholeMonths(s, e) == s.day = 1 /\ e.day = DaysInMonth(e.year, e.month)

\* L is an ordered list of intervals that exactly covers [s, e]
Partitions(L, s, e) ==
    /\ Len(L) >= 1
    /\ L[1].start = s
    /\ L[Len(L)].end = e
    /\ \A i \in 1..Len(L) : ToOrdinal(L[i].start) <= ToOrdinal(L[i].end)
    /\ \A i \in 1..(Len(L) - 1) : ToOrdinal(L[i + 1].start) = ToOrdinal(L[i].end) + 1

\* validation has let the run through to the first query or beyond
Passed ==
    pc \notin {"parse", "check_order", "validate", "validate_month",
               "exit_dates", "exit_order", "exit_alignment", "exit_traceback"}

\* the sections already printed when the block at position p sends a request
PrintedBefore(p) ==
    IF p \in {"s1_breakdown", "s1_aggregate"} THEN <<>>
    ELSE IF p = "s2" THEN <<1>>
    ELSE IF p = "s3_loop" THEN <<1, 2>>
    ELSE IF p \in {"s5_home", "s5_goals"} THEN <<1, 2, 3, 4>>
    ELSE <<1, 2, 3, 4, 5>>

\* r is the fraction conv / home * 100, or zero when home is zero
IsRate(r, conv, home) ==
    /\ r[2] > 0
    /\ IF home = 0 THEN r[1] = 0 ELSE r[1] * home = conv * 100 * r[2]
    /\ 0 <= r[1] /\ r[1] <= 100 * r[2]

(***************************************************************************)
(* The claims                                                              *)
(***************************************************************************)

\* C1: the whole-range total goal visitors reported in Section 1 is min(S, C),
\* S the sum of 'visitors' over the breakdown rows of requested goals and C the
\* site-wide visitors value, so it never exceeds C; Section 2 reports the same.
C1_TotalIsMinOfSumAndSite ==
    [][ /\ (pc = "s1_aggregate" /\ pc' = "s2") =>
              LET S == RequestedTotal(response.results, goals, "visitors")
                  C == response'.value
              IN /\ section_lines'[1] = Smaller(S, C)
                 /\ section_lines'[1] <= C
                 /\ total_goal_visitors' = section_lines'[1]
        /\ (pc = "s2" /\ pc' = "s3_build") =>
              /\ section_lines'[2] = section_lines[1]
              /\ total_goal_visitors' = total_goal_visitors
      ]_vars

\* C1 witness: Section 1 was printed with the sum (2) cut down to the site total (1)
C1_Witness ==
    /\ pc = "s2"
    /\ stdout = <<1>>
    /\ Len(goal_visitor_map) = 2
    /\ goal_visitor_map[1].count + goal_visitor_map[2].count = 2
    /\ site_total_visitors = 1
    /\ section_lines = <<1>>

\* C2 (as claimed): each per-goal visitor count printed in Section 4 is at most
\* the reconciled whole-range total goal visitors.
C2_Section4CountsCapped ==
    pc = "s5_home" =>
        \A i \in 1..Len(section_lines) : section_lines[i].count <= total_goal_visitors

\* C2 (amended): Section 4 prints each requested goal's count as the breakdown
\* returned it, uncapped, in descending order; such a count is at most the
\* reconciled total whenever it is at most the site-wide visitors value.
C2_Section4CountsRaw ==
    pc = "s5_home" =>
        /\ Len(section_lines) = Len(goal_visitor_map)
        /\ \A i \in 1..Len(section_lines) :
              /\ section_lines[i].goal \in Range(goals)
              /\ \E j \in 1..Len(goal_visitor_map) :
                    /\ goal_visitor_map[j].goal = section_lines[i].goal
                    /\ goal_visitor_map[j].count = section_lines[i].count
              /\ section_lines[i].count <= site_total_visitors
                    => section_lines[i].count <= total_goal_visitors
        /\ \A i \in 1..(Len(section_lines) - 1) :
              section_lines[i].count >= section_lines[i + 1].count

\* C2 witness: Section 4 was printed with two goals of one visitor each, under a
\* site total of one
C2_Witness ==
    /\ pc = "s5_home"
    /\ stdout = <<1, 2, 3, 4>>
    /\ Len(section_lines) = 2
    /\ section_lines[1].count = 1
    /\ section_lines[2].count = 1
    /\ site_total_visitors = 1
    /\ total_goal_visitors = 1

\* C3 (as claimed): when a metrics query fails, no report section has been output.
C3_NoSectionOnQueryError == pc = "exit_query" => stdout = <<>>

\* C3 (amended): a failing query ends the run at once and nothing is printed
\* after it: the output is then exactly the sections before the one whose query
\* failed, each complete, and none at all when the failure is in Section 1.
C3_OnlyEarlierSectionsOnQueryError ==
    [][ (pc /= "exit_query" /\ pc' = "exit_query") =>
            /\ stdout' = stdout
            /\ stdout = PrintedBefore(pc)
      ]_vars

\* C3 witness: the query of the second interval of Section 3 failed: Sections 1
\* and 2 are out, Section 3's first line was built and never printed
C3_Witness ==
    /\ pc = "exit_query"
    /\ stdout = <<1, 2>>
    /\ Len(intervals) = 2
    /\ Len(section_lines) = 1

\* C4: add_one_month has no failure mode: every call returns the date in the
\* following month with the day clamped to that month's length.
C4_AddOneMonthTotal ==
    [][ (pc = "validate_month" /\ ToOrdinal(current) < ToOrdinal(end_date)) =>
            /\ pc' = "validate_month"
            /\ current' = FollowingMonth(current)
      ]_vars

\* C5: for 'month', validation succeeds only for a range that runs from the
\* first day of a calendar month to the last day of a calendar month.
C5_MonthAcceptsOnlyWholeMonths ==
    (interval = "month" /\ Passed) => WholeMonths(start_date, end_date)

\* C6: for an accepted range, the interval list of Section 3 and the one of
\* Section 6 are the same ordered list, which exactly partitions [start, end].
C6_IntervalsPartitionRange ==
    [][ /\ (pc = "s3_build") =>
              /\ pc' = "s3_loop"
              /\ Partitions(intervals', start_date, end_date)
        /\ (pc = "s6_build") =>
              /\ pc' = "s6_home"
              /\ Partitions(intervals', start_date, end_date)
              /\ intervals' = intervals
      ]_vars

\* C6 witness: a finished month run from 2024-01-31 to 2024-04-28, in three intervals
C6_Witness ==
    /\ pc = "done"
    /\ interval = "month"
    /\ start_date = MkDate(2024, 1, 31)
    /\ end_date = MkDate(2024, 4, 28)
    /\ Len(intervals) = 3
    /\ intervals[2] = [start |-> MkDate(2024, 2, 29), end |-> MkDate(2024, 3, 28)]

\* C7: the alignment check runs before any metrics query: a run that ends on
\* malformed dates, on end before start or on a rejected range has sent no
\* query and printed no section, and none is sent or printed before the check.
C7_NoQueryBeforeValidation ==
    pc \in {"parse", "check_order", "validate", "validate_month",
            "exit_dates", "exit_order", "exit_alignment"} =>
        queries = 0 /\ stdout = <<>>

\* C7 witness: month 2024-01-05..2024-03-31 was rejected
C7_Witness ==
    /\ pc = "exit_alignment"
    /\ interval = "month"
    /\ start_date = MkDate(2024, 1, 5)
    /\ end_date = MkDate(2024, 3, 31)

\* C8: each Section 3 interval reports visitors min(V_i, T), V_i the interval's
\* sum of 'visitors' over requested goals and T the whole-range reconciled total
\* of Section 1, so at most T and at most the site-wide visitors; its events
\* figure is the uncapped sum of 'events'.
C8_IntervalVisitorsCappedByTotal ==
    [][ /\ (pc = "s3_loop" /\ idx' = idx + 1) =>
              LET rows == response'.results
                  line == section_lines'[Len(section_lines')]
                  T == total_goal_visitors
              IN /\ Len(section_lines') = idx
                 /\ line.visitors = Smaller(RequestedTotal(rows, goals, "visitors"), T)
                 /\ line.events = RequestedTotal(rows, goals, "events")
                 /\ line.visitors <= T
                 /\ T <= site_total_visitors
        /\ (pc \notin {"s1_breakdown", "s1_aggregate"}) =>
              total_goal_visitors' = total_goal_visitors
      ]_vars

\* C8 witness: the second interval's visitors (2) were cut to the total (1), its
\* events (2) were not
C8_Witness ==
    /\ pc = "s3_loop"
    /\ Len(section_lines) = 2
    /\ total_goal_visitors = 1
    /\ RequestedTotal(response.results, goals, "visitors") = 2
    /\ section_lines[2] = [events |-> 2, visitors |-> 1]

\* C9: in Section 5 and for every interval of Section 6 the conversion visitors
\* are min(sum of the goal visitor counts, page-wide visitors of the window), the
\* rate is 0 when page-wide visitors is 0 and conversion / page * 100 otherwise,
\* and so lies between 0 and 100.
C9_ConversionRateCapped ==
    [][ /\ (pc = "s5_home" /\ pc' = "s5_goals") =>
              conversion_visitors' = 0 /\ home_visitors' = response'.value
        /\ (pc = "s5_goals" /\ idx' = idx + 1) =>
              conversion_visitors' = conversion_visitors + response'.value
        /\ (pc = "s5_goals" /\ pc' = "s6_build") =>
              /\ conversion_visitors' = Smaller(conversion_visitors, home_visitors)
              /\ IsRate(conversion_rate', conversion_visitors', home_visitors)
              /\ section_lines' = <<conversion_rate'>>
        /\ (pc = "s6_home" /\ pc' = "s6_goals") =>
              home_visitors' = response'.value
        /\ (pc = "s6_goals" /\ pc' = "s6_home") =>
              /\ conversion_visitors' =
                    Smaller(RequestedTotal(response'.results, goals, "visitors"),
                            home_visitors)
              /\ IsRate(conversion_rate', conversion_visitors', home_visitors)
              /\ section_lines' = Append(section_lines, conversion_rate')
      ]_vars

\* C9 witness: Section 6 after two intervals: the first had no page visitors
\* (rate 0), the second had two goal visitors cut to one page visitor (rate 100)
C9_Witness ==
    /\ pc = "s6_home"
    /\ Len(section_lines) = 2
    /\ section_lines[1] = <<0, 1>>
    /\ section_lines[2] = <<100, 1>>
    /\ home_visitors = 1
    /\ RequestedTotal(response.results, goals, "visitors") = 2

\* C10: for 'week' validation succeeds if and only if start is a Sunday and end
\* is a Saturday; for 'day' it always succeeds.
C10_WeekAndDayAlignment ==
    /\ (interval = "week" /\ Passed) => (IsSunday(start_date) /\ IsSaturday(end_date))
    /\ (interval = "week" /\ pc = "exit_alignment") =>
            ~(IsSunday(start_date) /\ IsSaturday(end_date))
    /\ (interval \in {"week", "day"}) => pc \notin {"validate_month", "exit_traceback"}
    /\ (interval = "day") => pc /= "exit_alignment"

\* C10 witness: week 2024-06-03..2024-06-08, a Monday start, was rejected
C10_Witness ==
    /\ pc = "exit_alignment"
    /\ interval = "week"
    /\ start_date = MkDate(2024, 6, 3)
    /\ end_date = MkDate(2024, 6, 8)

====
